---------------------------- MODULE Spec2Model ----------------------------
(***************************************************************************)
(* The Account REST service of service/routes.py as a state machine.       *)
(*                                                                         *)
(* The state is the backing store (one row per Account, keyed by id), the  *)
(* id sequence of the store, and the last request served with the response *)
(* it got.  Every route of routes.py is one action.  Spec serves requests  *)
(* one after the other; ConcSpec lets PUT and DELETE requests of several   *)
(* workers interleave between their gateway calls.                         *)
(*                                                                         *)
(* Account (service/models.py) and the error handlers                      *)
(* (service/common/error_handlers.py) are modelled by their contracts:     *)
(* the entity, the persistence gateway, and a validation failure as 400.   *)
(***************************************************************************)
EXTENDS Integers, Sequences, FiniteSets, TLC

VARIABLES
    store,      \* the Account table: id -> row, for the ids that have a row
    next_id,    \* the next value of the table's id sequence
    req,        \* the request served last
    resp,       \* the response it got, as the client receives it
    workers,    \* per worker thread: the PUT or DELETE it is in the middle of
    written,    \* history: id -> the last successful write of the live row
    ok_deletes, \* history: id -> how many DELETE requests of it returned 204
    stale_put   \* history: a PUT returned 200 for a row already deleted

vars == <<store, next_id, req, resp, workers, written, ok_deletes, stale_put>>

---------------------------------------------------------------------------
\* Bounds of the model.

\* How many accounts are ever created.
MaxAccounts == 2

\* How many worker threads serve requests at once (ConcSpec).
NumWorkers == 2

\* Path ids a client asks for: 0 never names a row (ids start at 1).
PathIds == 0 .. MaxAccounts

Workers == 1 .. NumWorkers

---------------------------------------------------------------------------
\* HTTP status codes (service.common.status).

HTTP_200_OK == 200
HTTP_201_CREATED == 201
HTTP_204_NO_CONTENT == 204
HTTP_400_BAD_REQUEST == 400
HTTP_404_NOT_FOUND == 404
HTTP_415_UNSUPPORTED_MEDIA_TYPE == 415
HTTP_500_INTERNAL_SERVER_ERROR == 500

---------------------------------------------------------------------------
\* Values.

\* Python's None / JSON null, among string values.
None == "<None>"

\* A parsed JSON document: an object (a mapping from keys to values), or
\* something that is no mapping; Malformed is a body that does not parse.
JsonObject(data) == [kind |-> "object", data |-> data]
JsonArray == [kind |-> "array", data |-> <<>>]
Malformed == [kind |-> "malformed", data |-> <<>>]

\* The day the service runs on: the default of date_joined.
Today == <<2026, 11, 6>>

Dates == {<<2020, 1, 2>>, <<1999, 12, 31>>, Today}

Pad2(n) == IF n < 10 THEN "0" \o ToString(n) ELSE ToString(n)

\* date.isoformat(): YYYY-MM-DD.
isoformat(d) == ToString(d[1]) \o "-" \o Pad2(d[2]) \o "-" \o Pad2(d[3])

\* date.fromisoformat(): the date the text names.
fromisoformat(s) == CHOOSE d \in Dates : isoformat(d) = s

\* Request bodies a client sends.

\* Every field, and an id as a serialized Account has one: that of the
\* first account.
FullPayload ==
    [id |-> 1, name |-> "Ann", email |-> "ann@example.com",
     address |-> "1 Elm St", phone_number |-> "555-0101",
     date_joined |-> "2020-01-02"]

\* Only the required fields: no phone_number, no date_joined.
RequiredOnlyPayload ==
    [name |-> "Cy", email |-> "cy@example.com", address |-> "3 Ash Rd"]

\* The tests' {"name": "not enough data"}.
NotEnoughData == [name |-> "not enough data"]

\* Everything but a required field, address.
NoAddress ==
    [name |-> "Dee", email |-> "dee@example.com",
     phone_number |-> "555-0404", date_joined |-> "1999-12-31"]

ValidBodies ==
    {JsonObject(FullPayload), JsonObject(RequiredOnlyPayload)}

InvalidBodies ==
    {JsonObject(NotEnoughData), JsonObject(NoAddress), JsonArray, Malformed}

Bodies == ValidBodies \cup InvalidBodies

\* Content-Type headers a client sends; None is a request without one.
ContentTypes ==
    {"application/json", "application/json; charset=utf-8", "text/html", None}

---------------------------------------------------------------------------
\* Account entity (service/models.py).

\* data.get(key, default).
Get(data, key, default) == IF key \in DOMAIN data THEN data[key] ELSE default

\* Account(): a fresh instance, nothing set, no id yet.
Account ==
    [id |-> 0, name |-> None, email |-> None, address |-> None,
     phone_number |-> None, date_joined |-> Today]

RequiredKeys == {"name", "email", "address"}

\* account.deserialize(data): the fields of the mapping, or a validation
\* error when data is no mapping or lacks a required key.  phone_number is
\* optional, date_joined defaults to the day of creation; an id in the data
\* is not read.
deserialize(account, json) ==
    IF json.kind # "object" \/ ~(RequiredKeys \subseteq DOMAIN json.data)
    THEN [ok |-> FALSE, account |-> account]
    ELSE LET data == json.data IN
         [ok |-> TRUE,
          account |->
            [account EXCEPT
               !.name = data.name,
               !.email = data.email,
               !.address = data.address,
               !.phone_number = Get(data, "phone_number", None),
               !.date_joined =
                   IF "date_joined" \in DOMAIN data
                   THEN fromisoformat(data.date_joined) ELSE Today]]

\* account.serialize(): the mapping that is JSON-encoded.
serialize(account) ==
    [id |-> account.id, name |-> account.name, email |-> account.email,
     address |-> account.address, phone_number |-> account.phone_number,
     date_joined |-> isoformat(account.date_joined)]

---------------------------------------------------------------------------
\* Persistence gateway (service/models.py), on a table s.

NotFound == [id |-> 0]

\* Account.find(id): the row, or NotFound.
find(s, id) == IF id \in DOMAIN s THEN s[id] ELSE NotFound

\* account.create(): a row under a fresh id; yields the table and the
\* account with its id.
create(s, n, account) ==
    LET row == [account EXCEPT !.id = n] IN
    [store |-> [i \in DOMAIN s \cup {n} |-> IF i = n THEN row ELSE s[i]],
     next_id |-> n + 1,
     account |-> row]

\* account.update(): the in-memory state written back to its row.  Only
\* called here on a row that exists.
update(s, account) == [s EXCEPT ![account.id] = account]

\* account.delete(): the row removed; nothing happens when it is gone.
delete(s, account) == [i \in DOMAIN s \ {account.id} |-> s[i]]

RECURSIVE Orderings(_)
\* Every order in which the rows with the ids in S can come back.
Orderings(S) ==
    IF S = {} THEN {<<>>}
    ELSE UNION {{<<i>> \o rest : rest \in Orderings(S \ {i})} : i \in S}

\* Account.all(): every row, in an order the store chooses.
all(s) == {[k \in 1 .. Len(o) |-> s[o[k]]] : o \in Orderings(DOMAIN s)}

---------------------------------------------------------------------------
\* Responses.

NoHeaders == [h \in {} |-> ""]

\* jsonify(value): a JSON body.
jsonify(value) == [present |-> TRUE, json |-> value]

EmptyBody == [present |-> FALSE]

\* make_response(body, status, headers): the response a handler returns.
make_response(body, status, headers) ==
    [status |-> status, body |-> body, headers |-> headers]

\* The response as the HTTP layer sends it: a 204 goes out without a body,
\* whatever body the handler gave it.
send(response) ==
    IF response.status = HTTP_204_NO_CONTENT
    THEN [response EXCEPT !.body = EmptyBody]
    ELSE response

\* What a handler leaves behind: its response and the table after it.
Result(response, s, n) == [response |-> response, store |-> s, next_id |-> n]

\* abort(status, message): the request ends with a JSON error body and the
\* table as the handler found it.
abort(status, message) ==
    Result(make_response(jsonify([status |-> status, message |-> message]),
                         status, NoHeaders),
           store, next_id)

\* A slip in check_content_type: a request without the header passes.
check_content_type_or_missing(content_type, media_type) ==
    content_type = None \/ content_type = media_type

\* check_content_type(media_type): whether the request passes.
check_content_type(content_type, media_type) ==
    content_type # None /\ content_type # "" /\ content_type = media_type

\* request.get_json() of a body that parses.
get_json(body) == body

---------------------------------------------------------------------------
\* Request handlers (service/routes.py).  Each yields the set of results
\* the request can have in the current state.

health == {Result(make_response(jsonify([status |-> "OK"]), HTTP_200_OK,
                                NoHeaders), store, next_id)}

index ==
    {Result(make_response(jsonify([name |-> "Account REST API Service",
                                   version |-> "1.0"]),
                          HTTP_200_OK, NoHeaders), store, next_id)}

\* A slip in create_accounts: the row is created before the account is
\* filled from the body.
create_accounts_create_first(content_type, body) ==
    IF ~check_content_type(content_type, "application/json")
    THEN {abort(HTTP_415_UNSUPPORTED_MEDIA_TYPE,
                "Content-Type must be application/json")}
    ELSE IF body.kind = "malformed"
    THEN {abort(HTTP_400_BAD_REQUEST, "Bad Request")}
    ELSE LET made == create(store, next_id, Account)
             parsed == deserialize(made.account, get_json(body))
         IN  IF ~parsed.ok
             THEN {abort(HTTP_400_BAD_REQUEST, "Invalid Account")}
             ELSE {Result(make_response(jsonify(serialize(parsed.account)),
                                        HTTP_201_CREATED, [Location |-> "/"]),
                          made.store, made.next_id)}

create_accounts(content_type, body) ==
    IF ~check_content_type(content_type, "application/json")
    THEN {abort(HTTP_415_UNSUPPORTED_MEDIA_TYPE,
                "Content-Type must be application/json")}
    ELSE IF body.kind = "malformed"
    THEN {abort(HTTP_400_BAD_REQUEST, "Bad Request")}
    ELSE LET parsed == deserialize(Account, get_json(body)) IN
         IF ~parsed.ok
         THEN {abort(HTTP_400_BAD_REQUEST, "Invalid Account")}
         ELSE LET made == create(store, next_id, parsed.account)
                  message == serialize(made.account)
                  location_url == "/"
              IN  {Result(make_response(jsonify(message), HTTP_201_CREATED,
                                        [Location |-> location_url]),
                          made.store, made.next_id)}

\* A slip in list_accounts: the loop misses the first account.
list_accounts_skip_first ==
    {Result(make_response(
                jsonify([k \in 1 .. Len(accounts) - 1 |->
                            serialize(accounts[k + 1])]),
                HTTP_200_OK, NoHeaders),
            store, next_id) : accounts \in all(store)}

list_accounts ==
    {Result(make_response(
                jsonify([k \in 1 .. Len(accounts) |-> serialize(accounts[k])]),
                HTTP_200_OK, NoHeaders),
            store, next_id) : accounts \in all(store)}

read_account(id) ==
    LET account == find(store, id) IN
    IF account = NotFound
    THEN {abort(HTTP_404_NOT_FOUND, "Account not found")}
    ELSE {Result(make_response(jsonify(serialize(account)), HTTP_200_OK,
                               NoHeaders), store, next_id)}

\* A slip in update_account: date_joined is not copied.
update_account_write_keeps_date(account, body) ==
    IF body.kind = "malformed"
    THEN {abort(HTTP_400_BAD_REQUEST, "Bad Request")}
    ELSE LET parsed == deserialize(Account, get_json(body)) IN
         IF ~parsed.ok
         THEN {abort(HTTP_400_BAD_REQUEST, "Invalid Account")}
         ELSE LET new_account == parsed.account
                  updated ==
                      [account EXCEPT
                         !.name = new_account.name,
                         !.email = new_account.email,
                         !.address = new_account.address,
                         !.phone_number = new_account.phone_number]
              IN  {Result(make_response(jsonify(serialize(updated)),
                                        HTTP_200_OK, [Location |-> "/"]),
                          IF updated.id \in DOMAIN store
                          THEN update(store, updated) ELSE store,
                          next_id)}

\* A slip in update_account: a body that is a mapping is merged into the
\* account, the keys it lacks keep their values.
update_account_write_merge(account, body) ==
    IF body.kind # "object"
    THEN {abort(HTTP_400_BAD_REQUEST, "Bad Request")}
    ELSE LET data == body.data
             updated ==
                 [account EXCEPT
                    !.name = Get(data, "name", @),
                    !.email = Get(data, "email", @),
                    !.address = Get(data, "address", @),
                    !.phone_number = Get(data, "phone_number", @),
                    !.date_joined =
                        IF "date_joined" \in DOMAIN data
                        THEN fromisoformat(data.date_joined) ELSE @]
         IN  {Result(make_response(jsonify(serialize(updated)),
                                   HTTP_200_OK, [Location |-> "/"]),
                     IF updated.id \in DOMAIN store
                     THEN update(store, updated) ELSE store,
                     next_id)}

\* update_account from the deserialization on, with the account that
\* Account.find returned.  A row deleted since then makes account.update()
\* either do nothing or fail.
update_account_write(account, body) ==
    IF body.kind = "malformed"
    THEN {abort(HTTP_400_BAD_REQUEST, "Bad Request")}
    ELSE LET parsed == deserialize(Account, get_json(body)) IN
         IF ~parsed.ok
         THEN {abort(HTTP_400_BAD_REQUEST, "Invalid Account")}
         ELSE LET new_account == parsed.account
                  updated ==
                      [account EXCEPT
                         !.name = new_account.name,
                         !.email = new_account.email,
                         !.address = new_account.address,
                         !.phone_number = new_account.phone_number,
                         !.date_joined = new_account.date_joined]
                  message == serialize(updated)
                  location_url == "/"
                  done(s) ==
                      Result(make_response(jsonify(message), HTTP_200_OK,
                                           [Location |-> location_url]),
                             s, next_id)
              IN  IF updated.id \in DOMAIN store
                  THEN {done(update(store, updated))}
                  ELSE {done(store),
                        abort(HTTP_500_INTERNAL_SERVER_ERROR,
                              "Internal Server Error")}

\* update_account up to Account.find: the request is over (415, 404), or
\* the account is loaded.
update_account_find(id, content_type) ==
    IF ~check_content_type(content_type, "application/json")
    THEN [over |-> TRUE,
          results |-> {abort(HTTP_415_UNSUPPORTED_MEDIA_TYPE,
                             "Content-Type must be application/json")}]
    ELSE LET account == find(store, id) IN
         IF account = NotFound
         THEN [over |-> TRUE,
               results |-> {abort(HTTP_404_NOT_FOUND, "Account not found")}]
         ELSE [over |-> FALSE, account |-> account]

\* A slip in update_account: the body is validated before Account.find.
update_account_validate_first(id, content_type, body) ==
    IF ~check_content_type(content_type, "application/json")
    THEN {abort(HTTP_415_UNSUPPORTED_MEDIA_TYPE,
                "Content-Type must be application/json")}
    ELSE IF body.kind = "malformed" \/ ~deserialize(Account, get_json(body)).ok
    THEN {abort(HTTP_400_BAD_REQUEST, "Invalid Account")}
    ELSE LET found == update_account_find(id, content_type) IN
         IF found.over THEN found.results
         ELSE update_account_write(found.account, body)

update_account(id, content_type, body) ==
    LET found == update_account_find(id, content_type) IN
    IF found.over THEN found.results
    ELSE update_account_write(found.account, body)

\* A slip in delete_account: account.delete() is not called.
delete_account_write_keeps_row(account) ==
    {Result(make_response(jsonify(serialize(account)), HTTP_204_NO_CONTENT,
                          NoHeaders),
            store, next_id)}

\* delete_account from the serialization on, with the account that
\* Account.find returned.
delete_account_write(account) ==
    LET acc_dict == serialize(account) IN
    {Result(make_response(jsonify(acc_dict), HTTP_204_NO_CONTENT, NoHeaders),
            delete(store, account), next_id)}

\* delete_account up to Account.find: the request is over (404), or the
\* account is loaded.
delete_account_find(id) ==
    LET account == find(store, id) IN
    IF account = NotFound
    THEN [over |-> TRUE,
          results |-> {abort(HTTP_404_NOT_FOUND, "Account not found")}]
    ELSE [over |-> FALSE, account |-> account]

\* A slip in delete_account: an id without an account is answered 204 too.
delete_account_always_204(id) ==
    LET found == delete_account_find(id) IN
    IF found.over
    THEN {Result(make_response(jsonify(""), HTTP_204_NO_CONTENT, NoHeaders),
                 store, next_id)}
    ELSE delete_account_write(found.account)

delete_account(id) ==
    LET found == delete_account_find(id) IN
    IF found.over THEN found.results
    ELSE delete_account_write(found.account)

---------------------------------------------------------------------------
\* Requests and the state after one is served.

NoBody == [kind |-> "none", data |-> <<>>]

Request(method, path, id, content_type, body) ==
    [method |-> method, path |-> path, id |-> id,
     content_type |-> content_type, body |-> body]

Idle == [pc |-> "idle"]

\* A live row's last successful write: the verb and the body's mapping.
Written(request, result) ==
    LET status == result.response.status
        kept == [i \in DOMAIN written \cap DOMAIN result.store |-> written[i]]
        entry == [method |-> request.method, data |-> request.body.data]
        new == IF request.method = "POST" /\ status = HTTP_201_CREATED
               THEN {result.response.body.json.id}
               ELSE IF request.method = "PUT" /\ status = HTTP_200_OK
               THEN {request.id} \cap DOMAIN result.store
               ELSE {}
    IN  [i \in DOMAIN kept \cup new |-> IF i \in new THEN entry ELSE kept[i]]

\* The request is answered: the client gets the response, the table is as
\* the handler left it.
Serve(request, result) ==
    /\ req' = request
    /\ resp' = send(result.response)
    /\ store' = result.store
    /\ next_id' = result.next_id
    /\ written' = Written(request, result)
    /\ ok_deletes' =
         IF request.method = "DELETE"
            /\ result.response.status = HTTP_204_NO_CONTENT
         THEN [ok_deletes EXCEPT ![request.id] = @ + 1]
         ELSE ok_deletes
    /\ stale_put' =
         (stale_put \/ (/\ request.method = "PUT"
                        /\ result.response.status = HTTP_200_OK
                        /\ request.id \notin DOMAIN store))

Init ==
    /\ store = [i \in {} |-> Account]
    /\ next_id = 1
    /\ req = Request("GET", "/", 0, None, NoBody)
    /\ resp = send(make_response(jsonify([name |-> "Account REST API Service",
                                          version |-> "1.0"]),
                                 HTTP_200_OK, NoHeaders))
    /\ workers = [w \in Workers |-> Idle]
    /\ written = [i \in {} |-> Idle]
    /\ ok_deletes = [i \in PathIds |-> 0]
    /\ stale_put = FALSE

---------------------------------------------------------------------------
\* One action per route; the handler runs from start to end.

Health ==
    /\ \E r \in health : Serve(Request("GET", "/health", 0, None, NoBody), r)
    /\ UNCHANGED workers

Index ==
    /\ \E r \in index : Serve(Request("GET", "/", 0, None, NoBody), r)
    /\ UNCHANGED workers

CreateFrom(content_types, bodies) ==
    /\ next_id <= MaxAccounts
    /\ \E content_type \in content_types, body \in bodies :
         \E r \in create_accounts(content_type, body) :
            Serve(Request("POST", "/accounts", 0, content_type, body), r)
    /\ UNCHANGED workers

Create == CreateFrom(ContentTypes, Bodies)

List ==
    /\ \E r \in list_accounts :
         Serve(Request("GET", "/accounts", 0, None, NoBody), r)
    /\ UNCHANGED workers

Read ==
    /\ \E id \in PathIds :
         \E r \in read_account(id) :
            Serve(Request("GET", "/accounts/<id>", id, None, NoBody), r)
    /\ UNCHANGED workers

Update ==
    /\ \E id \in PathIds, content_type \in ContentTypes, body \in Bodies :
         \E r \in update_account(id, content_type, body) :
            Serve(Request("PUT", "/accounts/<id>", id, content_type, body), r)
    /\ UNCHANGED workers

Delete ==
    /\ \E id \in PathIds :
         \E r \in delete_account(id) :
            Serve(Request("DELETE", "/accounts/<id>", id, None, NoBody), r)
    /\ UNCHANGED workers

Next == Health \/ Index \/ Create \/ List \/ Read \/ Update \/ Delete

Spec == Init /\ [][Next]_vars

---------------------------------------------------------------------------
\* Requests served at once by several workers.  Every gateway call is one
\* step; a PUT or a DELETE is two: up to its Account.find, and from there
\* to its response.  The other routes make one gateway call.

\* Bodies of the concurrent runs: a valid one and an invalid one.
ConcBodies == {JsonObject(FullPayload), JsonObject(NotEnoughData)}

ConcCreate == CreateFrom({"application/json"}, ConcBodies)

InFlight(request, account) ==
    [pc |-> "loaded", request |-> request, account |-> account]

UpdateFind(w) ==
    /\ workers[w] = Idle
    /\ \E id \in PathIds, content_type \in {"application/json", "text/html"},
          body \in ConcBodies :
         LET request ==
                 Request("PUT", "/accounts/<id>", id, content_type, body)
             found == update_account_find(id, content_type)
         IN  IF found.over
             THEN /\ \E r \in found.results : Serve(request, r)
                  /\ UNCHANGED workers
             ELSE /\ workers' =
                       [workers EXCEPT ![w] = InFlight(request, found.account)]
                  /\ UNCHANGED <<store, next_id, req, resp, written,
                                 ok_deletes, stale_put>>

UpdateWrite(w) ==
    /\ workers[w] # Idle
    /\ workers[w].request.method = "PUT"
    /\ \E r \in update_account_write(workers[w].account,
                                     workers[w].request.body) :
         Serve(workers[w].request, r)
    /\ workers' = [workers EXCEPT ![w] = Idle]

DeleteFind(w) ==
    /\ workers[w] = Idle
    /\ \E id \in PathIds :
         LET request == Request("DELETE", "/accounts/<id>", id, None, NoBody)
             found == delete_account_find(id)
         IN  IF found.over
             THEN /\ \E r \in found.results : Serve(request, r)
                  /\ UNCHANGED workers
             ELSE /\ workers' =
                       [workers EXCEPT ![w] = InFlight(request, found.account)]
                  /\ UNCHANGED <<store, next_id, req, resp, written,
                                 ok_deletes, stale_put>>

DeleteWrite(w) ==
    /\ workers[w] # Idle
    /\ workers[w].request.method = "DELETE"
    /\ \E r \in delete_account_write(workers[w].account) :
         Serve(workers[w].request, r)
    /\ workers' = [workers EXCEPT ![w] = Idle]

ConcNext ==
    \/ ConcCreate
    \/ List
    \/ Read
    \/ \E w \in Workers : DeleteFind(w)
    \/ \E w \in Workers : DeleteWrite(w)
    \/ \E w \in Workers : UpdateFind(w)
    \/ \E w \in Workers : UpdateWrite(w)

ConcSpec == Init /\ [][ConcNext]_vars

---------------------------------------------------------------------------
\* What the claims are stated with.

\* The five mutable fields a payload stands for: an omitted phone_number
\* is null, an omitted date_joined the day of creation.
Expected(data) ==
    [name |-> data.name, email |-> data.email, address |-> data.address,
     phone_number |-> Get(data, "phone_number", None),
     date_joined |-> Get(data, "date_joined", "2026-11-06")]

\* The five mutable fields of a serialized Account.
Fields(json) ==
    [name |-> json.name, email |-> json.email, address |-> json.address,
     phone_number |-> json.phone_number, date_joined |-> json.date_joined]

IsJson(content_type) == content_type = "application/json"

OnAccount(request, method) ==
    request.method = method /\ request.path = "/accounts/<id>"

LacksRequired(body) ==
    body.kind = "object" /\ ~(RequiredKeys \subseteq DOMAIN body.data)

SameStore == store' = store /\ next_id' = next_id

AccountUrl(id) == "/accounts/" \o ToString(id)

---------------------------------------------------------------------------
\* The claims.

\* C1: POST /accounts with Content-Type application/json and a valid
\* payload P returns 201 with a serialized Account under a server-assigned
\* id (the next of the sequence, whatever id P carries), and a GET of that
\* id, with no update or delete of it in between, returns 200 with
\* name, email, address, phone_number and date_joined equal to those of P.
C1_CreateThenRead ==
    /\ (req.method = "POST" /\ IsJson(req.content_type)
        /\ req.body \in ValidBodies)
       => /\ resp.status = HTTP_201_CREATED
          /\ resp.body.present
          /\ resp.body.json.id = next_id - 1
          /\ resp.body.json.id \in DOMAIN store
          /\ Fields(resp.body.json) = Expected(req.body.data)
    /\ (OnAccount(req, "GET") /\ req.id \in DOMAIN written
        /\ written[req.id].method = "POST")
       => /\ resp.status = HTTP_200_OK
          /\ resp.body.json.id = req.id
          /\ Fields(resp.body.json) = Expected(written[req.id].data)

\* C1's case: the second account, created from a payload that carries the
\* id 1, is read back after other requests.
C1_Witness ==
    /\ OnAccount(req, "GET") /\ req.id = 2
    /\ 2 \in DOMAIN written
    /\ written[2] = [method |-> "POST", data |-> FullPayload]
    /\ resp.status = HTTP_200_OK
    /\ 1 \notin DOMAIN store

\* C2: once DELETE /accounts/{id} has returned 204, every later
\* GET /accounts/{id} returns 404, whatever was requested in between.
C2_DeletedStaysGone ==
    (OnAccount(req, "GET") /\ ok_deletes[req.id] > 0)
    => resp.status = HTTP_404_NOT_FOUND

\* C2's case: a GET of a deleted id after a later create.
C2_Witness ==
    /\ OnAccount(req, "GET") /\ req.id = 1 /\ ok_deletes[1] = 1
    /\ resp.status = HTTP_404_NOT_FOUND
    /\ 2 \in DOMAIN store

\* C3: GET /accounts returns 200 with a JSON array of exactly one
\* serialized entry per stored Account and nothing else: as many entries
\* as creates succeeded when nothing was deleted, each matching the account
\* last written under its id, and an empty array for an empty store.
C3_ListIsTheStore ==
    (req.method = "GET" /\ req.path = "/accounts")
    => /\ resp.status = HTTP_200_OK
       /\ resp.body.present
       /\ LET list == resp.body.json IN
          /\ Len(list) = Cardinality(DOMAIN store)
          /\ {list[k].id : k \in 1 .. Len(list)} = DOMAIN store
          /\ \A k \in 1 .. Len(list) :
               /\ list[k] = serialize(store[list[k].id])
               /\ Fields(list[k]) = Expected(written[list[k].id].data)
          /\ (\A i \in PathIds : ok_deletes[i] = 0) => Len(list) = next_id - 1
          /\ (DOMAIN store = {}) => list = <<>>

\* C3's case: a list of two accounts, the later one first.
C3_Witness ==
    /\ req.method = "GET" /\ req.path = "/accounts"
    /\ Len(resp.body.json) = 2
    /\ resp.body.json[1].id = 2

\* C4: a PUT /accounts/{id} that returns 200 has replaced the five mutable
\* fields of that account by the body's values, kept its id equal to the
\* path id whatever id the body carries, and left every other stored
\* account as it was; a following GET of the id returns the new values.
C4_UpdateReplaces ==
    /\ [][(OnAccount(req', "PUT") /\ resp'.status = HTTP_200_OK)
          => /\ DOMAIN store' = DOMAIN store
             /\ req'.id \in DOMAIN store
             /\ \A i \in DOMAIN store \ {req'.id} : store'[i] = store[i]
             /\ store'[req'.id].id = req'.id
             /\ Fields(serialize(store'[req'.id])) = Expected(req'.body.data)
             /\ resp'.body.json = serialize(store'[req'.id])
             /\ next_id' = next_id]_vars
    /\ []((OnAccount(req, "GET") /\ req.id \in DOMAIN written
           /\ written[req.id].method = "PUT")
          => /\ resp.status = HTTP_200_OK
             /\ resp.body.json.id = req.id
             /\ Fields(resp.body.json) = Expected(written[req.id].data))

\* C4's case: account 2, created with every field, was updated by a body
\* without the optional fields and is read back, account 1 still stored.
C4_Witness ==
    /\ OnAccount(req, "GET") /\ req.id = 2
    /\ 2 \in DOMAIN written
    /\ written[2] = [method |-> "PUT", data |-> RequiredOnlyPayload]
    /\ resp.status = HTTP_200_OK
    /\ resp.body.json.phone_number = None
    /\ 1 \in DOMAIN store

\* C5: POST /accounts and PUT /accounts/{id} with a Content-Type that is
\* missing or not equal to application/json return 415, with a valid and
\* with an invalid body alike, and leave the store unchanged.
C5_MediaTypeFirst ==
    [][(req'.method \in {"POST", "PUT"} /\ ~IsJson(req'.content_type))
       => (resp'.status = HTTP_415_UNSUPPORTED_MEDIA_TYPE /\ SameStore)]_vars

\* C5's case: a PUT without a Content-Type with an invalid body, on an
\* account that exists.
C5_Witness ==
    /\ OnAccount(req, "PUT") /\ req.content_type = None
    /\ req.body = JsonObject(NotEnoughData)
    /\ req.id \in DOMAIN store
    /\ resp.status = HTTP_415_UNSUPPORTED_MEDIA_TYPE

\* C6: PUT /accounts/{id} with Content-Type application/json for an id
\* without a stored Account returns 404, with a valid and with an invalid
\* body alike, and creates no account.
C6_UpdateNotFound ==
    [][(OnAccount(req', "PUT") /\ IsJson(req'.content_type)
        /\ req'.id \notin DOMAIN store)
       => (resp'.status = HTTP_404_NOT_FOUND /\ SameStore)]_vars

\* C6's case: a PUT with an invalid body on the id of a deleted account.
C6_Witness ==
    /\ OnAccount(req, "PUT") /\ IsJson(req.content_type)
    /\ req.body = JsonObject(NotEnoughData)
    /\ req.id = 1 /\ ok_deletes[1] = 1
    /\ resp.status = HTTP_404_NOT_FOUND

\* C7: POST /accounts, and PUT /accounts/{id} on an existing id, with
\* Content-Type application/json and a body that lacks a required field
\* return 400 and leave the store exactly as it was.
C7_BadRequestChangesNothing ==
    [][(/\ IsJson(req'.content_type)
        /\ LacksRequired(req'.body)
        /\ \/ req'.method = "POST"
           \/ OnAccount(req', "PUT") /\ req'.id \in DOMAIN store)
       => (resp'.status = HTTP_400_BAD_REQUEST /\ SameStore)]_vars

\* C7's case: a PUT with only a name on a stored account, which keeps its
\* fields.
C7_Witness ==
    /\ OnAccount(req, "PUT") /\ IsJson(req.content_type)
    /\ req.body = JsonObject(NotEnoughData)
    /\ req.id \in DOMAIN store
    /\ store[req.id].name = "Ann"
    /\ resp.status = HTTP_400_BAD_REQUEST

\* C8: a POST /accounts that returns 201 and a PUT /accounts/{id} that
\* returns 200 carry a Location header with the URL of the account,
\* /accounts/{id}.
C8_LocationIsAccountUrl ==
    (\/ req.method = "POST" /\ resp.status = HTTP_201_CREATED
     \/ OnAccount(req, "PUT") /\ resp.status = HTTP_200_OK)
    => /\ "Location" \in DOMAIN resp.headers
       /\ resp.headers.Location = AccountUrl(resp.body.json.id)

\* C9: DELETE /accounts/{id} on a stored account removes it, and only it,
\* and returns 204 with an empty body; on an id without a stored account it
\* returns 404 and leaves the store unchanged.
C9_Delete ==
    [][OnAccount(req', "DELETE")
       => IF req'.id \in DOMAIN store
          THEN /\ resp'.status = HTTP_204_NO_CONTENT
               /\ ~resp'.body.present
               /\ DOMAIN store' = DOMAIN store \ {req'.id}
               /\ \A i \in DOMAIN store' : store'[i] = store[i]
               /\ next_id' = next_id
          ELSE resp'.status = HTTP_404_NOT_FOUND /\ SameStore]_vars

\* C9's case: one of two accounts was deleted.
C9_Witness ==
    /\ OnAccount(req, "DELETE") /\ req.id = 1
    /\ resp.status = HTTP_204_NO_CONTENT
    /\ resp.body = EmptyBody
    /\ DOMAIN store = {2}

\* C10: with requests served at once, every gateway call one step, at most
\* one DELETE of an account id returns 204, and no PUT returns 200 for an
\* account that was deleted before the PUT's write.
C10_AsIfAlone ==
    /\ \A i \in PathIds : ok_deletes[i] <= 1
    /\ ~stale_put

===========================================================================
